---- MODULE Spec2Model ----
(***************************************************************************)
(* Transaction graph of a payment channel (src/channel/tx_graph.rs):       *)
(* the two-level store of transaction templates, the commitment renderer,  *)
(* the HTLC linker and the graph iterator.                                 *)
(***************************************************************************)
EXTENDS Integers, Sequences, FiniteSets, TLC

VARIABLES
    funding,       \* TxGraph::funding, the borrowed Funding
    cmt_version,   \* TxGraph::cmt_version
    cmt_locktime,  \* TxGraph::cmt_locktime
    cmt_sequence,  \* TxGraph::cmt_sequence
    cmt_outs,      \* TxGraph::cmt_outs
    graph,         \* TxGraph::graph : role -> (index -> Psbt)
    iter,          \* the live GraphIter borrowing the graph, if any
    ret            \* the last call and what it returned

vars == <<funding, cmt_version, cmt_locktime, cmt_sequence, cmt_outs, graph,
          iter, ret>>

-----------------------------------------------------------------------------
(* Bounds of the model *)

\* sequence numbers used as store keys are 0 .. MaxIndex
MaxIndex == 2
\* the store holds at most this many templates
MaxEntries == 2
\* the commitment has at most this many outputs
MaxOuts == 2

-----------------------------------------------------------------------------
(* Values *)

\* Option<T>: None, or Some(x)
None == << >>
Some(x) == << x >>

\* The outcome of a call: it returns a value, or it panics and returns nothing
Return(v) == [kind |-> "return", value |-> v]
Panic == [kind |-> "panic"]

\* u16 codes of the roles: Into<u16> for TxType
HtlcSuccess == 0
HtlcTimeout == 1
\* the roles the callers use: the two HTLC roles and one further role
Roles == {HtlcSuccess, HtlcTimeout, HtlcTimeout + 1}
Indices == 0 .. MaxIndex

\* psbt::Output
Output(amount, script) ==
    [amount |-> amount, script |-> script,
     witness_script |-> None, bip32_derivation |-> {}]

OutA == Output(40000, "to_local")
OutB == Output(60000, "to_remote")
Outputs == {OutA, OutB}

\* psbt::Input as built by Psbt::with from a transaction input
Input(previous_outpoint, sequence) ==
    [previous_outpoint |-> previous_outpoint,
     sequence_number |-> sequence,
     witness_utxo |-> None,
     witness_script |-> None,
     bip32_derivation |-> {}]

\* Psbt::to_txid: the hash of the unsigned transaction, which covers the
\* version, the lock time, each input's previous outpoint and sequence and
\* each output's amount and script, and none of the PSBT metadata.  The hash
\* is collision-free: it is modelled as the data it covers.
to_txid(psbt) ==
    [version |-> psbt.version,
     lock_time |-> psbt.lock_time,
     input |-> [k \in 1 .. Len(psbt.inputs) |->
                  [previous_output |-> psbt.inputs[k].previous_outpoint,
                   sequence |-> psbt.inputs[k].sequence_number]],
     output |-> [k \in 1 .. Len(psbt.outputs) |->
                  [value |-> psbt.outputs[k].amount,
                   script_pubkey |-> psbt.outputs[k].script]]]

\* The funding transactions of the model: unsigned, with the channel output
FundingPsbt(amount) ==
    [version |-> 2, lock_time |-> 0, inputs |-> << >>,
     outputs |-> << Output(1000, "change"),
                    [Output(amount, "funding_2of2") EXCEPT
                        !.witness_script = Some("2of2"),
                        !.bip32_derivation = {"local_key", "remote_key"}] >>]

\* Funding: the funding PSBT and the index of its channel output
Funding1 == [psbt |-> FundingPsbt(100000), output |-> 1]
Funding2 == [psbt |-> FundingPsbt(250000), output |-> 0]
Fundings == {Funding1, Funding2}

\* Funding::outpoint
funding_outpoint(f) == [txid |-> to_txid(f.psbt), vout |-> f.output]

\* The outpoint an HTLC template holds before it is linked
PlaceholderPrev ==
    [txid |-> to_txid([version |-> 0, lock_time |-> 0,
                       inputs |-> << >>, outputs |-> << >>]),
     vout |-> 7]

OtherPrev == [PlaceholderPrev EXCEPT !.vout = 9]

\* The templates the callers insert: without input, with one, with two
Template(inputs, amount) ==
    [version |-> 2, lock_time |-> 0, inputs |-> inputs,
     outputs |-> << Output(amount, "htlc") >>]

TplNoInput == Template(<< >>, 1000)
TplOne == Template(<< Input(PlaceholderPrev, 0) >>, 2000)
TplTwo == Template(<< Input(PlaceholderPrev, 0), Input(OtherPrev, 1) >>, 3000)
\* the templates the store specifications insert
StoreTemplates == {TplOne, TplTwo}
\* the templates the render specification inserts
HtlcTemplates == {TplNoInput, TplTwo}

Versions == {0, 2}
Locktimes == {0, 500000}
Sequences == {0, 2147483646}

-----------------------------------------------------------------------------
(* Ordered maps (BTreeMap) *)

EmptyMap == << >>

MapInsert(m, k, v) == [x \in (DOMAIN m) \cup {k} |-> IF x = k THEN v ELSE m[x]]

Min(S) == CHOOSE x \in S : \A y \in S : x <= y

\* the keys of a BTreeMap in iteration order
RECURSIVE SortedKeys(_)
SortedKeys(S) ==
    IF S = {} THEN << >>
    ELSE LET k == Min(S) IN << k >> \o SortedKeys(S \ {k})

\* BTreeMap::values
Values(m) == LET ks == SortedKeys(DOMAIN m) IN [i \in 1 .. Len(ks) |-> m[ks[i]]]

RECURSIVE Flatten(_)
Flatten(ss) == IF ss = << >> THEN << >> ELSE Head(ss) \o Flatten(Tail(ss))

-----------------------------------------------------------------------------
(* TxGraph *)

\* the graph a call receives as self
Self ==
    [funding |-> funding, cmt_version |-> cmt_version,
     cmt_locktime |-> cmt_locktime, cmt_sequence |-> cmt_sequence,
     cmt_outs |-> cmt_outs, graph |-> graph]

\* the graph a step leaves
SelfNext ==
    [funding |-> funding', cmt_version |-> cmt_version',
     cmt_locktime |-> cmt_locktime', cmt_sequence |-> cmt_sequence',
     cmt_outs |-> cmt_outs', graph |-> graph']

\* TxGraph::from_funding
from_funding(f) ==
    [funding |-> f, cmt_version |-> 0, cmt_locktime |-> 0, cmt_sequence |-> 0,
     cmt_outs |-> << >>, graph |-> EmptyMap]

\* TxGraph::tx (and the lookup of TxGraph::tx_mut)
tx(self, role, index) ==
    IF role \in DOMAIN self.graph /\ index \in DOMAIN self.graph[role]
    THEN Some(self.graph[role][index])
    ELSE None

\* the map insert_tx leaves when it keeps an occupied slot
graph_insert_keep_first(g, role, index, psbt) ==
    LET inner == IF role \in DOMAIN g THEN g[role] ELSE EmptyMap
    IN  IF index \in DOMAIN inner THEN g
        ELSE MapInsert(g, role, MapInsert(inner, index, psbt))

\* the map insert_tx leaves when it replaces the inner map of the role by one
\* that holds the new template only
graph_insert_fresh_role(g, role, index, psbt) ==
    MapInsert(g, role, MapInsert(EmptyMap, index, psbt))

\* the map TxGraph::insert_tx leaves:
\* graph.entry(role).or_insert_with(Default::default).insert(index, psbt)
graph_insert(g, role, index, psbt) ==
    LET inner == IF role \in DOMAIN g THEN g[role] ELSE EmptyMap
    IN  MapInsert(g, role, MapInsert(inner, index, psbt))

\* what insert_tx returns when it reports no previous template
insert_tx_result_none(self, role, index) == None

\* what TxGraph::insert_tx returns: the value BTreeMap::insert displaced
insert_tx_result(self, role, index) == tx(self, role, index)

RECURSIVE SumSeq(_)
SumSeq(s) == IF s = << >> THEN 0 ELSE Head(s) + SumSeq(Tail(s))

\* len counting the roles instead of the templates
len_roles(self) == Cardinality(DOMAIN self.graph)

\* TxGraph::len
len(self) ==
    LET maps == Values(self.graph)
    IN  SumSeq([i \in 1 .. Len(maps) |-> Cardinality(DOMAIN maps[i])])

\* TxGraph::is_empty
is_empty(self) == Cardinality(DOMAIN self.graph) = 0

\* last_index reporting the highest sequence number of the role
last_index_max(self, role) ==
    IF role \in DOMAIN self.graph
    THEN CHOOSE i \in DOMAIN self.graph[role] :
            \A k \in DOMAIN self.graph[role] : k <= i
    ELSE 0

\* TxGraph::last_index
last_index(self, role) ==
    IF role \in DOMAIN self.graph
    THEN Cardinality(DOMAIN self.graph[role])
    ELSE 0

-----------------------------------------------------------------------------
(* Commitment renderer *)

\* TxOut::default(), the value of vec![default!(); n]: the value is u64::MAX,
\* all bits set, written here as the two's complement -1
DefaultTxOut == [value |-> -1, script_pubkey |-> ""]

\* Psbt::with(tx, PsbtVersion::V0): fails when an input carries a script_sig
\* or a witness, and else copies the header, the inputs and the outputs
Psbt_with(unsigned_tx) ==
    IF \E k \in 1 .. Len(unsigned_tx.input) :
           \/ unsigned_tx.input[k].script_sig /= << >>
           \/ unsigned_tx.input[k].witness /= << >>
    THEN None
    ELSE Some([version |-> unsigned_tx.version,
               lock_time |-> unsigned_tx.lock_time,
               inputs |-> [k \in 1 .. Len(unsigned_tx.input) |->
                             Input(unsigned_tx.input[k].previous_output,
                                   unsigned_tx.input[k].sequence)],
               outputs |-> [k \in 1 .. Len(unsigned_tx.output) |->
                              Output(unsigned_tx.output[k].value,
                                     unsigned_tx.output[k].script_pubkey)]])

\* the unsigned transaction render_cmt builds, with a script_sig on its input
cmt_unsigned_tx_with_script_sig(self) ==
    [version |-> self.cmt_version,
     lock_time |-> self.cmt_locktime,
     input |-> << [previous_output |-> funding_outpoint(self.funding),
                   script_sig |-> << "OP_0" >>,
                   sequence |-> self.cmt_sequence,
                   witness |-> << >>] >>,
     output |-> [k \in 1 .. Len(self.cmt_outs) |-> DefaultTxOut]]

\* the unsigned transaction TxGraph::render_cmt builds
cmt_unsigned_tx(self) ==
    [version |-> self.cmt_version,
     lock_time |-> self.cmt_locktime,
     input |-> << [previous_output |-> funding_outpoint(self.funding),
                   script_sig |-> << >>,
                   sequence |-> self.cmt_sequence,
                   witness |-> << >>] >>,
     output |-> [k \in 1 .. Len(self.cmt_outs) |-> DefaultTxOut]]

\* the output loop of render_cmt filling the outputs back to front
cmt_fill_outputs_reversed(self, outputs) ==
    [k \in 1 .. Len(outputs) |-> self.cmt_outs[Len(outputs) + 1 - k]]

\* the output loop of TxGraph::render_cmt: *output = self.cmt_outs[index].clone()
cmt_fill_outputs(self, outputs) ==
    [k \in 1 .. Len(outputs) |-> self.cmt_outs[k]]

\* TxGraph::render_cmt
render_cmt(self) ==
    LET built == Psbt_with(cmt_unsigned_tx(self))
        funding_psbt == self.funding.psbt
        funding_vout == self.funding.output
    IN  IF built = None THEN Panic
        ELSE IF funding_vout >= Len(funding_psbt.outputs) THEN Panic
        ELSE LET psbt == built[1]
                 funding_output == funding_psbt.outputs[funding_vout + 1]
                 input0 ==
                    [psbt.inputs[1] EXCEPT
                       !.witness_utxo =
                           Some([value |-> funding_output.amount,
                                 script_pubkey |-> funding_output.script]),
                       !.witness_script = funding_output.witness_script,
                       !.bip32_derivation = funding_output.bip32_derivation]
             IN  Return([psbt EXCEPT
                           !.inputs = << input0 >>,
                           !.outputs = cmt_fill_outputs(self, psbt.outputs)])

-----------------------------------------------------------------------------
(* Plain render *)

\* render leaving the commitment out
render_without_cmt(self) ==
    LET cmt_tx == render_cmt(self)
    IN  IF cmt_tx.kind = "panic" THEN Panic
        ELSE Return(Flatten([i \in 1 .. Len(Values(self.graph)) |->
                                Values(Values(self.graph)[i])]))

\* render walking the stored templates from the last one to the first
render_descending(self) ==
    LET cmt_tx == render_cmt(self)
        all == Flatten([i \in 1 .. Len(Values(self.graph)) |->
                           Values(Values(self.graph)[i])])
    IN  IF cmt_tx.kind = "panic" THEN Panic
        ELSE Return(<< cmt_tx.value >> \o
                    [j \in 1 .. Len(all) |-> all[Len(all) + 1 - j]])

\* TxGraph::render
render(self) ==
    LET cmt_tx == render_cmt(self)
    IN  IF cmt_tx.kind = "panic" THEN Panic
        ELSE Return(<< cmt_tx.value >> \o
                    Flatten([i \in 1 .. Len(Values(self.graph)) |->
                                Values(Values(self.graph)[i])]))

-----------------------------------------------------------------------------
(* HTLC linker *)

\* u32::MAX = 4294967295, in decimal digits
U32MaxDigits == << 4, 2, 9, 4, 9, 6, 7, 2, 9, 5 >>

\* ds <= es, for two digit strings of one length
RECURSIVE DigitsLeq(_, _)
DigitsLeq(ds, es) ==
    IF ds = << >> THEN TRUE
    ELSE IF Head(ds) /= Head(es) THEN Head(ds) < Head(es)
    ELSE DigitsLeq(Tail(ds), Tail(es))

\* str::parse::<u32> accepts the digits
FitsU32(ds) ==
    \/ Len(ds) < Len(U32MaxDigits)
    \/ Len(ds) = Len(U32MaxDigits) /\ DigitsLeq(ds, U32MaxDigits)

\* the decimal digits of n, as Display writes them
RECURSIVE Digits(_)
Digits(n) == IF n < 10 THEN << n >> ELSE Append(Digits(n \div 10), n % 10)

RECURSIVE DigitsValue(_)
DigitsValue(ds) ==
    IF ds = << >> THEN 0
    ELSE 10 * DigitsValue(SubSeq(ds, 1, Len(ds) - 1)) + ds[Len(ds)]

\* format!("{}:{}", txid, index): the txid's text and the index in decimal
format_outpoint(txid, index) == [txid_hex |-> txid, vout |-> Digits(index)]

\* OutPoint::from_str: the text is at most 75 characters (64 of them the
\* txid and one the colon), the index has no leading zero and fits a u32
OutPoint_from_str(s) ==
    IF 64 + 1 + Len(s.vout) > 75 THEN None
    ELSE IF Len(s.vout) > 1 /\ s.vout[1] = 0 THEN None
    ELSE IF ~FitsU32(s.vout) THEN None
    ELSE Some([txid |-> s.txid_hex, vout |-> DigitsValue(s.vout)])

\* the sequence number looked up for an output index, without the offset
htlc_index_no_offset(index) == index

\* let htlc_index = index + 1
htlc_index(index) == index + 1

\* the body of the if-let: the clone of the template with its first input
\* pointing at (txid, index); the parse is expected, the input is indexed
link(psbt, txid, index) ==
    LET prev == OutPoint_from_str(format_outpoint(txid, index))
    IN  IF prev = None THEN Panic
        ELSE IF Len(psbt.inputs) = 0 THEN Panic
        ELSE Return([psbt EXCEPT !.inputs[1].previous_outpoint = prev[1]])

\* one for-loop of render_cmt_htlcs from `index` on: txes, extended by the
\* linked templates of `role`
RECURSIVE link_loop(_, _, _, _, _, _)
link_loop(self, txid, role, index, n_outputs, txes) ==
    IF index >= n_outputs THEN Return(txes)
    ELSE LET found == tx(self, role, htlc_index(index))
         IN  IF found = None
             THEN link_loop(self, txid, role, index + 1, n_outputs, txes)
             ELSE LET linked == link(found[1], txid, index)
                  IN  IF linked.kind = "panic" THEN Panic
                      ELSE link_loop(self, txid, role, index + 1, n_outputs,
                                     Append(txes, linked.value))

\* render_cmt_htlcs running the HtlcSuccess loop first
render_cmt_htlcs_success_first(self) ==
    LET cmt_tx == render_cmt(self)
    IN  IF cmt_tx.kind = "panic" THEN Panic
        ELSE LET txid == to_txid(cmt_tx.value)
                 n == Len(cmt_tx.value.outputs)
                 first == link_loop(self, txid, HtlcSuccess, 0, n,
                                    << cmt_tx.value >>)
             IN  IF first.kind = "panic" THEN Panic
                 ELSE link_loop(self, txid, HtlcTimeout, 0, n, first.value)

\* render_cmt_htlcs with a third loop, over the role after HtlcTimeout
render_cmt_htlcs_all_roles(self) ==
    LET cmt_tx == render_cmt(self)
    IN  IF cmt_tx.kind = "panic" THEN Panic
        ELSE LET txid == to_txid(cmt_tx.value)
                 n == Len(cmt_tx.value.outputs)
                 timeouts == link_loop(self, txid, HtlcTimeout, 0, n,
                                       << cmt_tx.value >>)
                 successes == IF timeouts.kind = "panic" THEN Panic
                              ELSE link_loop(self, txid, HtlcSuccess, 0, n,
                                             timeouts.value)
             IN  IF successes.kind = "panic" THEN Panic
                 ELSE link_loop(self, txid, HtlcTimeout + 1, 0, n,
                                successes.value)

\* TxGraph::render_cmt_htlcs
render_cmt_htlcs(self) ==
    LET cmt_tx == render_cmt(self)
    IN  IF cmt_tx.kind = "panic" THEN Panic
        ELSE LET txid == to_txid(cmt_tx.value)
                 n == Len(cmt_tx.value.outputs)
                 timeouts == link_loop(self, txid, HtlcTimeout, 0, n,
                                       << cmt_tx.value >>)
             IN  IF timeouts.kind = "panic" THEN Panic
                 ELSE link_loop(self, txid, HtlcSuccess, 0, n, timeouts.value)

-----------------------------------------------------------------------------
(* Graph iterator *)

\* GraphIter::with
GraphIter_with == [curr_role |-> 0, curr_index |-> 0]

\* GraphIter::next reporting the sequence number it looked up
GraphIter_next_reporting_key(self, it) ==
    LET first == tx(self, it.curr_role, it.curr_index)
        role == IF first = None THEN it.curr_role + 1 ELSE it.curr_role
        index == IF first = None THEN 0 ELSE it.curr_index
        found == IF first = None THEN tx(self, role, index) ELSE first
    IN  [it |-> [curr_role |-> role, curr_index |-> index + 1],
         item |-> IF found = None THEN None
                  ELSE Some(<< role, index, found[1] >>)]

\* GraphIter::next on iterator `it` over graph `self`: the iterator it leaves
\* and the item it returns
GraphIter_next(self, it) ==
    LET first == tx(self, it.curr_role, it.curr_index)
        role == IF first = None THEN it.curr_role + 1 ELSE it.curr_role
        index == IF first = None THEN 0 ELSE it.curr_index
        found == IF first = None THEN tx(self, role, index) ELSE first
    IN  [it |-> [curr_role |-> role, curr_index |-> index + 1],
         item |-> IF found = None THEN None
                  ELSE Some(<< role, index + 1, found[1] >>)]

\* the role up to which the model drives an iterator
LastRole == CHOOSE r \in Roles : \A q \in Roles : q <= r

-----------------------------------------------------------------------------
(* Operations *)

NoCall == [op |-> "from_funding"]

\* TxGraph::from_funding(funding), for a funding of `fundings`
InitWith(fundings) ==
    /\ funding \in fundings
    /\ cmt_version = from_funding(funding).cmt_version
    /\ cmt_locktime = from_funding(funding).cmt_locktime
    /\ cmt_sequence = from_funding(funding).cmt_sequence
    /\ cmt_outs = from_funding(funding).cmt_outs
    /\ graph = from_funding(funding).graph
    /\ iter = None
    /\ ret = NoCall

Init == InitWith({Funding1})
InitAnyFunding == InitWith(Fundings)

\* graph.insert_tx(role, index, psbt); &mut self: no iterator borrows the graph
InsertTx(role, index, psbt) ==
    /\ iter = None
    /\ len(Self) < MaxEntries \/ tx(Self, role, index) /= None
    /\ graph' = graph_insert(graph, role, index, psbt)
    /\ ret' = [op |-> "insert_tx", role |-> role, index |-> index,
               psbt |-> psbt, result |-> insert_tx_result(Self, role, index)]
    /\ UNCHANGED <<funding, cmt_version, cmt_locktime, cmt_sequence, cmt_outs,
                   iter>>

\* tx looking the role up with entry(role).or_default(), which leaves an
\* empty inner map for a role without entries
TxOrDefault(role, index) ==
    /\ ret' = [op |-> "tx", role |-> role, index |-> index,
               result |-> tx(Self, role, index)]
    /\ graph' = IF role \in DOMAIN graph THEN graph
                ELSE MapInsert(graph, role, EmptyMap)
    /\ UNCHANGED <<funding, cmt_version, cmt_locktime, cmt_sequence, cmt_outs,
                   iter>>

\* graph.tx(role, index)
Tx(role, index) ==
    /\ ret' = [op |-> "tx", role |-> role, index |-> index,
               result |-> tx(Self, role, index)]
    /\ UNCHANGED <<funding, cmt_version, cmt_locktime, cmt_sequence, cmt_outs,
                   graph, iter>>

\* tx_mut taking the template out of the store with remove(index)
TxMutRemoving(role, index, psbt) ==
    /\ iter = None
    /\ graph' = IF tx(Self, role, index) = None THEN graph
                ELSE [graph EXCEPT ![role] =
                        [i \in (DOMAIN graph[role]) \ {index} |->
                            graph[role][i]]]
    /\ ret' = [op |-> "tx_mut", role |-> role, index |-> index,
               psbt |-> psbt, result |-> tx(Self, role, index)]
    /\ UNCHANGED <<funding, cmt_version, cmt_locktime, cmt_sequence, cmt_outs,
                   iter>>

\* tx_mut looking the slot up with entry(role).or_default(), which leaves an
\* empty inner map for a role without entries
TxMutOrDefault(role, index, psbt) ==
    /\ iter = None
    /\ graph' = IF role \notin DOMAIN graph
                THEN MapInsert(graph, role, EmptyMap)
                ELSE IF tx(Self, role, index) = None THEN graph
                ELSE [graph EXCEPT ![role][index] = psbt]
    /\ ret' = [op |-> "tx_mut", role |-> role, index |-> index,
               psbt |-> psbt, result |-> tx(Self, role, index)]
    /\ UNCHANGED <<funding, cmt_version, cmt_locktime, cmt_sequence, cmt_outs,
                   iter>>

\* graph.tx_mut(role, index), and the caller's write of `psbt` through the
\* reference it returns, when it returns one
TxMut(role, index, psbt) ==
    /\ iter = None
    /\ graph' = IF tx(Self, role, index) = None THEN graph
                ELSE [graph EXCEPT ![role][index] = psbt]
    /\ ret' = [op |-> "tx_mut", role |-> role, index |-> index,
               psbt |-> psbt, result |-> tx(Self, role, index)]
    /\ UNCHANGED <<funding, cmt_version, cmt_locktime, cmt_sequence, cmt_outs,
                   iter>>

\* graph.cmt_version = v
SetCmtVersion(v) ==
    /\ iter = None
    /\ cmt_version' = v
    /\ ret' = [op |-> "assign", field |-> "cmt_version"]
    /\ UNCHANGED <<funding, cmt_locktime, cmt_sequence, cmt_outs, graph, iter>>

\* graph.cmt_locktime = v
SetCmtLocktime(v) ==
    /\ iter = None
    /\ cmt_locktime' = v
    /\ ret' = [op |-> "assign", field |-> "cmt_locktime"]
    /\ UNCHANGED <<funding, cmt_version, cmt_sequence, cmt_outs, graph, iter>>

\* graph.cmt_sequence = v
SetCmtSequence(v) ==
    /\ iter = None
    /\ cmt_sequence' = v
    /\ ret' = [op |-> "assign", field |-> "cmt_sequence"]
    /\ UNCHANGED <<funding, cmt_version, cmt_locktime, cmt_outs, graph, iter>>

\* graph.cmt_outs = outs
SetCmtOuts(outs) ==
    /\ iter = None
    /\ cmt_outs' = outs
    /\ ret' = [op |-> "assign", field |-> "cmt_outs"]
    /\ UNCHANGED <<funding, cmt_version, cmt_locktime, cmt_sequence, graph,
                   iter>>

\* graph.render()
Render ==
    /\ ret' = [op |-> "render", result |-> render(Self)]
    /\ UNCHANGED <<funding, cmt_version, cmt_locktime, cmt_sequence, cmt_outs,
                   graph, iter>>

\* render_cmt returning the template stored at sequence 0 of the further
\* role, when there is one, instead of building the commitment
RenderCmtStored ==
    /\ ret' = [op |-> "render_cmt",
               result |-> IF tx(Self, HtlcTimeout + 1, 0) /= None
                          THEN Return(tx(Self, HtlcTimeout + 1, 0)[1])
                          ELSE render_cmt(Self)]
    /\ UNCHANGED <<funding, cmt_version, cmt_locktime, cmt_sequence, cmt_outs,
                   graph, iter>>

\* graph.render_cmt()
RenderCmt ==
    /\ ret' = [op |-> "render_cmt", result |-> render_cmt(Self)]
    /\ UNCHANGED <<funding, cmt_version, cmt_locktime, cmt_sequence, cmt_outs,
                   graph, iter>>

\* render_cmt_htlcs writing the linked templates back into the store
RenderCmtHtlcsInPlace ==
    /\ ret' = [op |-> "render_cmt_htlcs", result |-> render_cmt_htlcs(Self)]
    /\ graph' =
         IF render_cmt(Self).kind = "panic" THEN graph
         ELSE [role \in DOMAIN graph |->
                 [index \in DOMAIN graph[role] |->
                    IF /\ role \in {HtlcTimeout, HtlcSuccess}
                       /\ index \in 1 .. Len(cmt_outs)
                       /\ Len(graph[role][index].inputs) > 0
                    THEN link(graph[role][index],
                              to_txid(render_cmt(Self).value), index - 1).value
                    ELSE graph[role][index]]]
    /\ UNCHANGED <<funding, cmt_version, cmt_locktime, cmt_sequence, cmt_outs,
                   iter>>

\* graph.render_cmt_htlcs()
RenderCmtHtlcs ==
    /\ ret' = [op |-> "render_cmt_htlcs", result |-> render_cmt_htlcs(Self)]
    /\ UNCHANGED <<funding, cmt_version, cmt_locktime, cmt_sequence, cmt_outs,
                   graph, iter>>

\* graph.len()
Len_ ==
    /\ ret' = [op |-> "len", result |-> len(Self)]
    /\ UNCHANGED <<funding, cmt_version, cmt_locktime, cmt_sequence, cmt_outs,
                   graph, iter>>

\* graph.is_empty()
IsEmpty ==
    /\ ret' = [op |-> "is_empty", result |-> is_empty(Self)]
    /\ UNCHANGED <<funding, cmt_version, cmt_locktime, cmt_sequence, cmt_outs,
                   graph, iter>>

\* graph.last_index(role)
LastIndex(role) ==
    /\ ret' = [op |-> "last_index", role |-> role,
               result |-> last_index(Self, role)]
    /\ UNCHANGED <<funding, cmt_version, cmt_locktime, cmt_sequence, cmt_outs,
                   graph, iter>>

\* graph.iter()
Iter ==
    /\ iter = None
    /\ iter' = Some([it |-> GraphIter_with, yielded |-> << >>, ended |-> FALSE])
    /\ ret' = [op |-> "iter"]
    /\ UNCHANGED <<funding, cmt_version, cmt_locktime, cmt_sequence, cmt_outs,
                   graph>>

\* it.next(); `yielded` keeps the items returned before the first None and
\* `ended` tells that None was returned
IterNext ==
    /\ iter /= None
    /\ iter[1].it.curr_role <= LastRole
    /\ LET step == GraphIter_next(Self, iter[1].it)
       IN  /\ iter' = Some([it |-> step.it,
                            yielded |-> IF iter[1].ended \/ step.item = None
                                        THEN iter[1].yielded
                                        ELSE Append(iter[1].yielded,
                                                    step.item[1]),
                            ended |-> iter[1].ended \/ step.item = None])
           /\ ret' = [op |-> "next", result |-> step.item,
                      first_none |-> ~iter[1].ended /\ step.item = None]
    /\ UNCHANGED <<funding, cmt_version, cmt_locktime, cmt_sequence, cmt_outs,
                   graph>>

\* the iterator is dropped and its borrow of the graph ends
IterDrop ==
    /\ iter /= None
    /\ iter' = None
    /\ ret' = [op |-> "drop"]
    /\ UNCHANGED <<funding, cmt_version, cmt_locktime, cmt_sequence, cmt_outs,
                   graph>>

\* the output lists the callers assign
OutLists == UNION { [1 .. n -> Outputs] : n \in 0 .. MaxOuts }
UniformOutLists == { [k \in 1 .. n |-> OutA] : n \in 0 .. MaxOuts }

-----------------------------------------------------------------------------
(* Specifications *)

\* the store
Next ==
    \/ \E role \in Roles, index \in Indices, psbt \in StoreTemplates :
          InsertTx(role, index, psbt)
    \/ \E role \in Roles, index \in Indices : Tx(role, index)
    \/ \E role \in Roles, index \in Indices, psbt \in StoreTemplates :
          TxMut(role, index, psbt)

Spec == Init /\ [][Next]_vars

\* the store with its counts and the renders
NextStore ==
    \/ \E role \in Roles, index \in Indices, psbt \in StoreTemplates :
          InsertTx(role, index, psbt)
    \/ \E role \in Roles, index \in Indices : Tx(role, index)
    \/ \E role \in Roles, index \in Indices, psbt \in StoreTemplates :
          TxMut(role, index, psbt)
    \/ Len_
    \/ IsEmpty
    \/ \E role \in Roles : LastIndex(role)
    \/ Render
    \/ RenderCmt
    \/ RenderCmtHtlcs

SpecStore == Init /\ [][NextStore]_vars

\* every operation on a graph whose header keeps its initial values
NextAll ==
    \/ \E role \in Roles, index \in Indices : InsertTx(role, index, TplOne)
    \/ \E role \in Roles, index \in Indices : Tx(role, index)
    \/ \E role \in Roles, index \in Indices : TxMut(role, index, TplOne)
    \/ Len_
    \/ IsEmpty
    \/ \E role \in Roles : LastIndex(role)
    \/ Render
    \/ RenderCmt
    \/ RenderCmtHtlcs
    \/ Iter
    \/ IterNext
    \/ IterDrop

SpecAll == Init /\ [][NextAll]_vars

\* the commitment renderer
NextCmt ==
    \/ \E v \in Versions : SetCmtVersion(v)
    \/ \E v \in Locktimes : SetCmtLocktime(v)
    \/ \E v \in Sequences : SetCmtSequence(v)
    \/ \E outs \in OutLists : SetCmtOuts(outs)
    \/ RenderCmt

SpecCmt == InitAnyFunding /\ [][NextCmt]_vars

\* the commitment renderer on a graph with templates at sequence 0
NextCmtStore ==
    \/ \E role \in Roles, psbt \in StoreTemplates : InsertTx(role, 0, psbt)
    \/ \E v \in Versions : SetCmtVersion(v)
    \/ \E v \in Locktimes : SetCmtLocktime(v)
    \/ \E v \in Sequences : SetCmtSequence(v)
    \/ \E outs \in OutLists : SetCmtOuts(outs)
    \/ RenderCmt

SpecCmtStore == InitAnyFunding /\ [][NextCmtStore]_vars

\* the renders of a populated graph: plain, and with the HTLCs linked
NextRender ==
    \/ \E role \in Roles, index \in Indices, psbt \in HtlcTemplates :
          InsertTx(role, index, psbt)
    \/ \E v \in Versions : SetCmtVersion(v)
    \/ \E outs \in UniformOutLists : SetCmtOuts(outs)
    \/ Render
    \/ RenderCmtHtlcs

SpecRender == Init /\ [][NextRender]_vars

\* the graph iterator
NextIter ==
    \/ \E role \in Roles, index \in Indices, psbt \in StoreTemplates :
          InsertTx(role, index, psbt)
    \/ Iter
    \/ IterNext
    \/ IterDrop

SpecIter == Init /\ [][NextIter]_vars

-----------------------------------------------------------------------------
(* Properties of the HTLC linker *)

\* the commitment transaction of the current state and its txid
Cmt == render_cmt(Self).value
CmtTxid == to_txid(Cmt)

\* the 0-based output indices of the commitment whose HTLC template of
\* `role` is stored
LinkedIndices(role) ==
    { i \in 0 .. Len(Cmt.outputs) - 1 : tx(Self, role, i + 1) /= None }

\* c is template t with the previous outpoint of its input 0 set to prev and
\* nothing else changed
IsLinkedClone(c, t, prev) ==
    /\ Len(t.inputs) >= 1
    /\ Len(c.inputs) = Len(t.inputs)
    /\ c.inputs[1].previous_outpoint = prev
    /\ c.inputs[1] = [t.inputs[1] EXCEPT !.previous_outpoint = prev]
    /\ \A k \in 2 .. Len(t.inputs) : c.inputs[k] = t.inputs[k]
    /\ c.version = t.version
    /\ c.lock_time = t.lock_time
    /\ c.outputs = t.outputs

\* every HTLC template the linker reaches has an input to rewrite
AllLinkable ==
    \A role \in {HtlcTimeout, HtlcSuccess} : \A i \in LinkedIndices(role) :
        Len(tx(Self, role, i + 1)[1].inputs) >= 1

\* the result of a render_cmt_htlcs call holds, for each role and each output
\* index i with a template stored at (role, i + 1), its clone linked to
\* (txid of the commitment, i)
HoldsLinkedClones(result) ==
    /\ result.kind = "return"
    /\ \A role \in {HtlcTimeout, HtlcSuccess} : \A i \in LinkedIndices(role) :
          \E j \in 1 .. Len(result.value) :
             IsLinkedClone(result.value[j], tx(Self, role, i + 1)[1],
                           [txid |-> CmtTxid, vout |-> i])

\* C1 as claimed: whenever render_cmt_htlcs() is called, for every output
\* index i of the rendered commitment and each of the roles HtlcTimeout and
\* HtlcSuccess, a template stored at (role, i + 1) has its clone in the
\* result, linked to (commitment txid, i).
C1_LinkedClonesAlways ==
    ret.op = "render_cmt_htlcs" => HoldsLinkedClones(ret.result)

\* C1 amended: the same holds whenever every template stored at
\* (HtlcTimeout, s) or (HtlcSuccess, s), 1 <= s <= number of commitment
\* outputs, has at least one input; when one of them has no input the call
\* panics on inputs[0] and returns nothing.
C1_LinkedClonesWhenLinkable ==
    ret.op = "render_cmt_htlcs" =>
        IF AllLinkable THEN HoldsLinkedClones(ret.result)
        ELSE ret.result = Panic

\* C1 witness: a call returned with the templates stored at (HtlcTimeout, 1)
\* and (HtlcSuccess, 2) linked to outputs 0 and 1 of a two-output commitment
C1_Witness ==
    /\ ret.op = "render_cmt_htlcs"
    /\ ret.result.kind = "return"
    /\ Len(cmt_outs) = 2
    /\ tx(Self, HtlcTimeout, 1) /= None
    /\ tx(Self, HtlcSuccess, 2) /= None
    /\ Len(ret.result.value) = 3
    /\ ret.result.value[2].inputs[1].previous_outpoint =
          [txid |-> CmtTxid, vout |-> 0]
    /\ ret.result.value[3].inputs[1].previous_outpoint =
          [txid |-> CmtTxid, vout |-> 1]

\* the linked clones of `role` in ascending output-index order
LinkedInOrder(role) ==
    LET idx == SortedKeys(LinkedIndices(role))
    IN  [j \in 1 .. Len(idx) |-> idx[j]]

\* C2: the list render_cmt_htlcs() returns is the commitment, then the linked
\* HtlcTimeout clones in strictly ascending output-index order, then the
\* linked HtlcSuccess clones in strictly ascending output-index order.
C2_ResultOrdering ==
    (ret.op = "render_cmt_htlcs" /\ ret.result.kind = "return") =>
        LET txes == ret.result.value
            timeouts == LinkedInOrder(HtlcTimeout)
            successes == LinkedInOrder(HtlcSuccess)
        IN  /\ Len(txes) = 1 + Len(timeouts) + Len(successes)
            /\ txes[1] = Cmt
            /\ \A j \in 1 .. Len(timeouts) :
                  /\ IsLinkedClone(txes[1 + j],
                                   tx(Self, HtlcTimeout, timeouts[j] + 1)[1],
                                   [txid |-> CmtTxid, vout |-> timeouts[j]])
                  /\ j > 1 => timeouts[j - 1] < timeouts[j]
            /\ \A j \in 1 .. Len(successes) :
                  /\ IsLinkedClone(txes[1 + Len(timeouts) + j],
                                   tx(Self, HtlcSuccess, successes[j] + 1)[1],
                                   [txid |-> CmtTxid, vout |-> successes[j]])
                  /\ j > 1 => successes[j - 1] < successes[j]

\* C2 witness: a call returned a timeout clone followed by a success clone
\* although the success template spends the lower output
C2_Witness ==
    /\ ret.op = "render_cmt_htlcs"
    /\ ret.result.kind = "return"
    /\ LinkedIndices(HtlcTimeout) = {1}
    /\ LinkedIndices(HtlcSuccess) = {0}
    /\ Len(ret.result.value) = 3
    /\ ret.result.value[2].inputs[1].previous_outpoint.vout = 1
    /\ ret.result.value[3].inputs[1].previous_outpoint.vout = 0

\* C3: a render_cmt_htlcs() call leaves the store and every other field of
\* the graph as they were, and a second call right after it returns the
\* same result.
C3_LinkingKeepsStore ==
    [][ret'.op = "render_cmt_htlcs" =>
          /\ graph' = graph
          /\ SelfNext = Self
          /\ ret'.result = render_cmt_htlcs(SelfNext)
          /\ ret.op = "render_cmt_htlcs" => ret'.result = ret.result]_vars

\* C3 witness: a call returned a linked clone of the template stored at
\* (HtlcTimeout, 1), and the stored template still holds its own outpoint
C3_Witness ==
    /\ ret.op = "render_cmt_htlcs"
    /\ ret.result.kind = "return"
    /\ Len(cmt_outs) >= 1
    /\ tx(Self, HtlcTimeout, 1) = Some(TplTwo)
    /\ ret.result.value[2].inputs[1].previous_outpoint =
          [txid |-> CmtTxid, vout |-> 0]
    /\ graph[HtlcTimeout][1].inputs[1].previous_outpoint = PlaceholderPrev

-----------------------------------------------------------------------------
(* Properties of the commitment renderer *)

\* C4: render_cmt() yields a transaction with exactly one input, spending
\* the funding outpoint with sequence cmt_sequence, with version cmt_version
\* and lock time cmt_locktime, and with the outputs cmt_outs in their order.
C4_CommitmentShape ==
    ret.op = "render_cmt" =>
        /\ ret.result.kind = "return"
        /\ LET psbt == ret.result.value
           IN  /\ Len(psbt.inputs) = 1
               /\ psbt.inputs[1].previous_outpoint =
                     [txid |-> to_txid(funding.psbt), vout |-> funding.output]
               /\ psbt.version = cmt_version
               /\ psbt.lock_time = cmt_locktime
               /\ psbt.inputs[1].sequence_number = cmt_sequence
               /\ Len(psbt.outputs) = Len(cmt_outs)
               /\ \A k \in 1 .. Len(cmt_outs) : psbt.outputs[k] = cmt_outs[k]

\* C4 witness: the commitment of the header (2, 0, 0x7FFFFFFE) with the two
\* outputs of 40000 and 60000 was rendered
C4_Witness ==
    /\ ret.op = "render_cmt"
    /\ cmt_version = 2
    /\ cmt_locktime = 0
    /\ cmt_sequence = 2147483646
    /\ cmt_outs = << OutA, OutB >>
    /\ ret.result.kind = "return"
    /\ ret.result.value.outputs[1].amount = 40000
    /\ ret.result.value.outputs[2].amount = 60000

-----------------------------------------------------------------------------
(* Properties of the graph iterator *)

\* the stored (role, sequence) pairs
StoredPairs ==
    { p \in Roles \X Indices :
         p[1] \in DOMAIN graph /\ p[2] \in DOMAIN graph[p[1]] }

\* p comes before q in ascending role, then ascending sequence order
PairBefore(p, q) == p[1] < q[1] \/ (p[1] = q[1] /\ p[2] < q[2])

\* seq lists every stored pair once, in ascending (role, sequence) order
ListsStoredPairs(seq) ==
    /\ Len(seq) = Cardinality(StoredPairs)
    /\ \A j \in 1 .. Len(seq) : seq[j] \in StoredPairs
    /\ \A j \in 2 .. Len(seq) : PairBefore(seq[j - 1], seq[j])

\* C5 as claimed: a fresh iterator driven until it first returns None has
\* yielded exactly len() triples, one for each stored (role, sequence) pair,
\* in ascending role then sequence order, each with the template stored at
\* the reported (role, sequence).
C5_IteratorCompleteness ==
    (iter /= None /\ iter[1].ended) =>
        LET yielded == iter[1].yielded
        IN  /\ Len(yielded) = len(Self)
            /\ ListsStoredPairs([j \in 1 .. Len(yielded) |->
                                    << yielded[j][1], yielded[j][2] >>])
            /\ \A j \in 1 .. Len(yielded) :
                  tx(Self, yielded[j][1], yielded[j][2]) = Some(yielded[j][3])

\* C6 as claimed: when next() returns None, no role greater than the
\* iterator's current role holds an entry.
C6_NoneOnlyAtEnd ==
    (iter /= None /\ ret.op = "next" /\ ret.result = None) =>
        \A role \in DOMAIN graph : role <= iter[1].it.curr_role

-----------------------------------------------------------------------------
(* Properties of the store *)

\* C7: insert_tx(r, s, t) leaves t at (r, s), and a tx(r, s) or tx_mut(r, s)
\* that follows it immediately returns t.
C7_InsertThenLookup ==
    [][/\ ret'.op = "insert_tx" =>
             tx(SelfNext, ret'.role, ret'.index) = Some(ret'.psbt)
       /\ ( /\ ret.op = "insert_tx"
            /\ ret'.op \in {"tx", "tx_mut"}
            /\ ret'.role = ret.role
            /\ ret'.index = ret.index ) =>
             ret'.result = Some(ret.psbt)]_vars

\* C7 witness: an insert replaced the template of an occupied slot and the
\* slot holds the new one
C7_Witness ==
    /\ ret.op = "insert_tx"
    /\ ret.result = Some(TplOne)
    /\ ret.psbt = TplTwo
    /\ tx(Self, ret.role, ret.index) = Some(TplTwo)

\* C8: insert_tx(r, s, t) returns the template stored at (r, s) before the
\* call, or None when the slot was empty, and leaves t there: the role holds
\* one more entry when the slot was empty and as many as before otherwise.
C8_UpsertReturnsPrevious ==
    [][ret'.op = "insert_tx" =>
          /\ ret'.result = tx(Self, ret'.role, ret'.index)
          /\ tx(SelfNext, ret'.role, ret'.index) = Some(ret'.psbt)
          /\ last_index(SelfNext, ret'.role) =
                last_index(Self, ret'.role) +
                   (IF tx(Self, ret'.role, ret'.index) = None THEN 1 ELSE 0)
          /\ ( /\ ret.op = "insert_tx"
               /\ ret'.role = ret.role
               /\ ret'.index = ret.index ) =>
                ret'.result = Some(ret.psbt)]_vars

\* C8 witness: the second insert at a slot returned the template of the
\* first; the first had returned None
C8_Witness ==
    /\ ret.op = "insert_tx"
    /\ ret.psbt = TplTwo
    /\ ret.result = Some(TplOne)
    /\ last_index(Self, ret.role) = 1
    /\ len(Self) = 1

-----------------------------------------------------------------------------
(* Properties of the plain render *)

\* C9: the list render() returns has length 1 + len().
C9_RenderSize ==
    ret.op = "render" =>
        /\ ret.result.kind = "return"
        /\ Len(ret.result.value) = 1 + len(Self)

\* C9 witness: a graph of two templates was rendered
C9_Witness ==
    /\ ret.op = "render"
    /\ len(Self) = 2
    /\ Len(ret.result.value) = 3

\* C10: render() returns the rendered commitment, then every stored template
\* in ascending (role, sequence) order, each as it is stored.
C10_RenderOrdering ==
    ret.op = "render" =>
        /\ ret.result.kind = "return"
        /\ ret.result.value[1] = Cmt
        /\ \E pairs \in [1 .. Len(ret.result.value) - 1 -> StoredPairs] :
              /\ ListsStoredPairs(pairs)
              /\ \A j \in 1 .. Len(pairs) :
                    ret.result.value[1 + j] = graph[pairs[j][1]][pairs[j][2]]

\* C10 witness: two different templates of two roles were rendered behind
\* the commitment, the lower role first, with the outpoints of the store
C10_Witness ==
    /\ ret.op = "render"
    /\ Len(cmt_outs) = 2
    /\ tx(Self, HtlcSuccess, 2) = Some(TplTwo)
    /\ tx(Self, HtlcTimeout, 1) = Some(TplNoInput)
    /\ ret.result.value = << Cmt, TplTwo, TplNoInput >>
    /\ ret.result.value[2].inputs[1].previous_outpoint = PlaceholderPrev

-----------------------------------------------------------------------------
(* Properties of the counts *)

RECURSIVE SumOver(_, _)
\* the sum of count[x] over the x of S
SumOver(S, count) ==
    IF S = {} THEN 0
    ELSE LET x == CHOOSE y \in S : TRUE
         IN  count[x] + SumOver(S \ {x}, count)

\* C11: len() is the sum, over all roles, of last_index(role).
C11_CountConsistency ==
    ret.op = "len" =>
        ret.result = SumOver(Roles \cup DOMAIN graph,
                             [r \in Roles \cup DOMAIN graph |->
                                last_index(Self, r)])

\* C11 witness: len() was called on a graph of two templates in two roles,
\* one role holding none
C11_Witness ==
    /\ ret.op = "len"
    /\ ret.result = 2
    /\ last_index(Self, HtlcSuccess) = 1
    /\ last_index(Self, HtlcTimeout) = 0
    /\ last_index(Self, HtlcTimeout + 1) = 1

\* C13: last_index(role) is the number of entries stored for the role, 0 for
\* a role without entries, whatever their sequence numbers are.
C13_LastIndexCounts ==
    ret.op = "last_index" =>
        ret.result =
           Cardinality({ i \in Indices : tx(Self, ret.role, i) /= None })

\* C13 witness: last_index reported 1 for a role whose only entry has the
\* sequence number 2
C13_Witness ==
    /\ ret.op = "last_index"
    /\ ret.role \in DOMAIN graph
    /\ DOMAIN graph[ret.role] = {2}
    /\ ret.result = 1

-----------------------------------------------------------------------------
(* Properties of emptiness *)

\* C12: the graph from_funding returns is empty; a step makes the graph
\* non-empty only if it is an insert_tx, an insert_tx leaves it non-empty and
\* no other operation changes is_empty(), so that is_empty() holds exactly
\* while no insert_tx has been performed; is_empty() is len() = 0, and no role
\* maps to an empty inner map.
C12_Emptiness ==
    [][/\ ret.op = "from_funding" => is_empty(Self)
       /\ ret'.op = "insert_tx" => ~is_empty(SelfNext)
       /\ ret'.op /= "insert_tx" => is_empty(SelfNext) = is_empty(Self)
       /\ ret'.op = "is_empty" => ret'.result = is_empty(SelfNext)
       /\ is_empty(SelfNext) = (len(SelfNext) = 0)
       /\ \A role \in DOMAIN graph' : DOMAIN graph'[role] /= {}]_vars

\* C12 witness: a tx_mut of an absent key on the graph as constructed
\* returned None and the graph is still empty
C12_Witness ==
    /\ ret.op = "tx_mut"
    /\ ret.result = None
    /\ is_empty(Self)
    /\ len(Self) = 0

-----------------------------------------------------------------------------
(* Properties of the store over time *)

\* C14: in every step each slot that holds a template still holds one
\* afterwards, and len() grows by exactly 1 on an insert_tx into an empty slot
\* and is unchanged by an insert_tx into an occupied slot and by every other
\* operation.
C14_NoRemoval ==
    [][/\ \A role \in DOMAIN graph :
             /\ role \in DOMAIN graph'
             /\ \A index \in DOMAIN graph[role] :
                   tx(SelfNext, role, index) /= None
       /\ len(SelfNext) =
             len(Self) +
                (IF /\ ret'.op = "insert_tx"
                    /\ tx(Self, ret'.role, ret'.index) = None
                 THEN 1 ELSE 0)]_vars

\* C14 witness: an insert_tx into an occupied slot of a graph of two
\* templates returned the old template and the graph still holds two
C14_Witness ==
    /\ ret.op = "insert_tx"
    /\ ret.result = Some(TplOne)
    /\ tx(Self, ret.role, ret.index) = Some(TplOne)
    /\ len(Self) = 2

\* C15: a tx or tx_mut of a (role, sequence) that holds no template, be the
\* role unknown or only the sequence, returns None and leaves the graph as it
\* was.
C15_AbsenceIsNone ==
    [][( /\ ret'.op \in {"tx", "tx_mut"}
         /\ tx(Self, ret'.role, ret'.index) = None ) =>
            /\ ret'.result = None
            /\ SelfNext = Self]_vars

\* C15 witness: a tx_mut of an unknown sequence of a known role returned None
\* while a tx of an unknown role had returned None before
C15_Witness ==
    /\ ret.op = "tx_mut"
    /\ ret.role \in DOMAIN graph
    /\ ret.index \notin DOMAIN graph[ret.role]
    /\ ret.result = None
    /\ \E role \in Roles : role \notin DOMAIN graph

-----------------------------------------------------------------------------
(* Properties of the commitment renderer and the store *)

\* the graph from_funding builds for the funding, with the header and the
\* outputs of the current graph and an empty store
SelfWithoutStore ==
    [from_funding(funding) EXCEPT
        !.cmt_version = cmt_version,
        !.cmt_locktime = cmt_locktime,
        !.cmt_sequence = cmt_sequence,
        !.cmt_outs = cmt_outs]

\* C16: render_cmt() returns what it returns on the graph with the same
\* funding, header and outputs and an empty store, so that two graphs that
\* agree on these render the same commitment whatever they store; the call
\* leaves the store as it was and the commitment is no template of it.
C16_CommitmentIgnoresStore ==
    [][ret'.op = "render_cmt" =>
          /\ ret'.result = render_cmt(SelfWithoutStore)
          /\ graph' = graph
          /\ \A role \in DOMAIN graph : \A index \in DOMAIN graph[role] :
                Return(graph[role][index]) /= ret'.result]_vars

\* C16 witness: the commitment of a non-default header with two outputs was
\* rendered on a graph that stores two templates
C16_Witness ==
    /\ ret.op = "render_cmt"
    /\ len(Self) = 2
    /\ cmt_version = 2
    /\ cmt_locktime = 500000
    /\ cmt_outs = << OutB, OutA >>
    /\ ret.result = render_cmt(SelfWithoutStore)

\* C17: render_cmt() returns a transaction for every header, every output
\* list and every store: its single input is built with an empty script_sig
\* and an empty witness, and with no outputs stored the commitment has none.
C17_CommitmentNeverFails ==
    ret.op = "render_cmt" =>
        /\ ret.result.kind = "return"
        /\ Len(cmt_unsigned_tx(Self).input) = 1
        /\ cmt_unsigned_tx(Self).input[1].script_sig = << >>
        /\ cmt_unsigned_tx(Self).input[1].witness = << >>
        /\ Psbt_with(cmt_unsigned_tx(Self)) /= None
        /\ cmt_outs = << >> => ret.result.value.outputs = << >>

\* C17 witness: a commitment without outputs was rendered on a graph that
\* stores a template, with a non-default sequence
C17_Witness ==
    /\ ret.op = "render_cmt"
    /\ cmt_outs = << >>
    /\ cmt_sequence = 2147483646
    /\ len(Self) >= 1
    /\ ret.result.kind = "return"
    /\ ret.result.value.outputs = << >>
    /\ Len(ret.result.value.inputs) = 1


\* C18: every triple (role, n, template) GraphIter::next yields holds the
\* template stored at (role, n - 1), n being one more than the sequence
\* number looked up; a new iterator stands at sequence 0, and a call that
\* moves to another role looks that role up at sequence 0.
C18_ReportedIsKeyPlusOne ==
    [][/\ ret'.op = "iter" => iter'[1].it = GraphIter_with
       /\ GraphIter_with.curr_index = 0
       /\ ret'.op = "next" =>
            /\ ret'.result /= None =>
                 LET item == ret'.result[1]
                 IN  /\ item[2] >= 1
                     /\ tx(Self, item[1], item[2] - 1) = Some(item[3])
                     /\ item[1] = iter'[1].it.curr_role
                     /\ item[2] = iter'[1].it.curr_index
                     /\ item[2] - 1 = IF item[1] = iter[1].it.curr_role
                                      THEN iter[1].it.curr_index
                                      ELSE 0
            /\ iter'[1].it.curr_role /= iter[1].it.curr_role =>
                 iter'[1].it.curr_index = 1]_vars

\* C18 witness: the iterator moved on from a role without templates and
\* yielded the second template of the next role, stored at sequence 1, as
\* number 2
C18_Witness ==
    /\ ret.op = "next"
    /\ ret.result /= None
    /\ ret.result[1][1] = HtlcTimeout
    /\ ret.result[1][2] = 2
    /\ tx(Self, HtlcSuccess, 0) = None
    /\ tx(Self, HtlcTimeout, 1) = Some(ret.result[1][3])
    /\ tx(Self, HtlcTimeout, 2) = None


\* the sequence numbers, out of 1 .. number of commitment outputs, at which
\* a template of `role` is stored
LinkedSequences(role) ==
    { seq \in 1 .. Len(cmt_outs) : tx(Self, role, seq) /= None }

\* a template is stored that the linker has no use for: at sequence 0, at a
\* sequence above the number of commitment outputs, or under a further role
StoresUnlinked ==
    \E role \in DOMAIN graph : \E seq \in DOMAIN graph[role] :
        \/ role \notin {HtlcTimeout, HtlcSuccess}
        \/ seq = 0
        \/ seq > Len(cmt_outs)

\* C19: with n commitment outputs, the list a render_cmt_htlcs() call returns
\* is the commitment followed only by linked clones of templates stored at
\* (HtlcTimeout, s) or (HtlcSuccess, s), 1 <= s <= n; its length is one plus
\* the number of such slots, and one when no HTLC template is stored.
C19_LinkingMembership ==
    (ret.op = "render_cmt_htlcs" /\ ret.result.kind = "return") =>
        LET txes == ret.result.value
        IN  /\ Len(txes) = 1 + Cardinality(LinkedSequences(HtlcTimeout))
                             + Cardinality(LinkedSequences(HtlcSuccess))
            /\ txes[1] = Cmt
            /\ \A j \in 2 .. Len(txes) :
                  \E role \in {HtlcTimeout, HtlcSuccess} :
                     \E seq \in LinkedSequences(role) :
                        IsLinkedClone(txes[j], tx(Self, role, seq)[1],
                                      [txid |-> CmtTxid, vout |-> seq - 1])
            /\ (\A role \in {HtlcTimeout, HtlcSuccess} : \A seq \in Indices :
                   tx(Self, role, seq) = None) => Len(txes) = 1

\* C19 witness: a call returned the commitment and one linked clone on a
\* graph that stores a second template the linker has no use for
C19_Witness ==
    /\ ret.op = "render_cmt_htlcs"
    /\ ret.result.kind = "return"
    /\ Len(cmt_outs) >= 1
    /\ len(Self) = 2
    /\ StoresUnlinked
    /\ Len(ret.result.value) = 2
    /\ ret.result.value[2].inputs[1].previous_outpoint.txid = CmtTxid


\* C20: insert_tx(role, index, psbt) changes the slot (role, index) only:
\* every other slot holds after the call what it held before, stored or not,
\* and cmt_version, cmt_locktime, cmt_sequence, cmt_outs and the funding are
\* unchanged.
C20_InsertFrame ==
    [][ret'.op = "insert_tx" =>
          /\ tx(SelfNext, ret'.role, ret'.index) = Some(ret'.psbt)
          /\ \A role \in Roles \cup DOMAIN graph \cup DOMAIN graph' :
                \A index \in Indices :
                   << role, index >> /= << ret'.role, ret'.index >> =>
                      tx(SelfNext, role, index) = tx(Self, role, index)
          /\ cmt_version' = cmt_version
          /\ cmt_locktime' = cmt_locktime
          /\ cmt_sequence' = cmt_sequence
          /\ cmt_outs' = cmt_outs
          /\ funding' = funding]_vars

\* C20 witness: a template was inserted next to another one of the same
\* role, which is still stored, in a graph with a set header and outputs
C20_Witness ==
    /\ ret.op = "insert_tx"
    /\ ret.result = None
    /\ \E index \in Indices :
          /\ index /= ret.index
          /\ tx(Self, ret.role, index) /= None
          /\ tx(Self, ret.role, index) /= Some(ret.psbt)
    /\ cmt_version = 2
    /\ Len(cmt_outs) = 2

====
